---- MODULE Spec2Model ----
(***************************************************************************)
(* Model of src/src/consent.ts: the Consent client of the IHS library.     *)
(*                                                                         *)
(* The client has two asynchronous operations, get and update, a private   *)
(* helper exception that turns any caught value into an OperationOutcome,  *)
(* and the module-level accessor getConsentSingleton.  The collaborators   *)
(* (the IHS object with its auth() call, fetch, and the Response body      *)
(* readers) are modelled as nondeterministic outcomes of every await.      *)
(***************************************************************************)
EXTENDS Integers, Sequences, FiniteSets, TLC

(***************************************************************************)
(* Bounds of the model.                                                    *)
(***************************************************************************)
NumInv == 2     \* concurrent invocations of get/update in SpecConc
MaxCalls == 3   \* calls of getConsentSingleton

(***************************************************************************)
(* JavaScript values.  Every value is a record tagged with its type, so    *)
(* that values of different types can be compared.  An object is the       *)
(* sequence of its own properties <<key, value>> in insertion order.       *)
(***************************************************************************)
Undefined == [type |-> "undefined"]
Null == [type |-> "null"]
Str(s) == [type |-> "string", str |-> s]
Num(n) == [type |-> "number", num |-> n]
Obj(props) == [type |-> "object", props |-> props]
Arr(items) == [type |-> "array", items |-> items]

\* A marker of the model (not a JavaScript value): nothing there yet.
Nothing == [type |-> "nothing"]

\* Completion of an evaluation: a value, or a thrown value.
Normal(v) == [kind |-> "normal", value |-> v]
Throw(v) == [kind |-> "throw", value |-> v]

\* new Error(message): the message is an own property of the object.
Error(message) == Obj(<< <<"message", Str(message)>> >>)

\* The TypeError of reading a property of undefined or null.
NullishAccessMessage == "Cannot read properties of undefined"

\* The SyntaxError of JSON.parse / Response.json() on a body that is no JSON.
SyntaxErrorMessage == "Unexpected token in JSON"

IsNullish(v) == v.type \in {"undefined", "null"}

HasOwn(props, key) == \E k \in 1..Len(props) : props[k][1] = key

\* Own property lookup; undefined when there is none.
Lookup(props, key) ==
    IF HasOwn(props, key)
    THEN props[CHOOSE k \in 1..Len(props) : props[k][1] = key][2]
    ELSE Undefined

\* obj[key] = value: replaces the value in place, or appends a new property.
SetProp(props, key, value) ==
    IF HasOwn(props, key)
    THEN [k \in 1..Len(props) |->
            IF props[k][1] = key THEN <<key, value>> ELSE props[k]]
    ELSE Append(props, <<key, value>>)

\* v.key : throws a TypeError on undefined and null; a primitive has no
\* such property; an object yields its own property.
Member(v, key) ==
    IF IsNullish(v) THEN Throw(Error(NullishAccessMessage))
    ELSE IF v.type = "object" THEN Normal(Lookup(v.props, key))
    ELSE Normal(Undefined)

\* v?.key without the optional chain: the plain member access.
StrictMember(v, key) == Member(v, key)

\* v?.key : undefined on undefined and null, never throws.
OptionalMember(v, key) ==
    IF IsNullish(v) THEN Normal(Undefined) ELSE Member(v, key)

\* ToBoolean
Truthy(v) ==
    CASE v.type = "undefined" -> FALSE
      [] v.type = "null" -> FALSE
      [] v.type = "string" -> v.str # ""
      [] v.type = "number" -> v.num # 0
      [] OTHER -> TRUE

\* a || b
Or(a, b) == IF Truthy(a) THEN a ELSE b

\* { ...target, ...source } : copies the own properties of source in order.
RECURSIVE Spread(_, _)
Spread(target, source) ==
    IF source = <<>> THEN target
    ELSE Spread(SetProp(target, Head(source)[1], Head(source)[2]), Tail(source))

(***************************************************************************)
(* JSON text.  A text on the wire is the sequence of its lexical tokens;   *)
(* JSON.stringify produces one, Response.json() parses one, and            *)
(* Response.text() decodes one into a string.                              *)
(***************************************************************************)
Punct(c) == [tok |-> "punct", str |-> c]
StrTok(s) == [tok |-> "string", str |-> s]
NumTok(n) == [tok |-> "number", num |-> n]
Lit(s) == [tok |-> "literal", str |-> s]
Chars(s) == [tok |-> "chars", str |-> s]

RECURSIVE Stringify(_)
RECURSIVE StringifyMembers(_, _)
RECURSIVE StringifyItems(_, _)
\* JSON.stringify of a value that is not undefined.
Stringify(v) ==
    CASE v.type = "string" -> << StrTok(v.str) >>
      [] v.type = "number" -> << NumTok(v.num) >>
      [] v.type = "object" ->
            << Punct("{") >> \o StringifyMembers(v.props, TRUE) \o << Punct("}") >>
      [] v.type = "array" ->
            << Punct("[") >> \o StringifyItems(v.items, TRUE) \o << Punct("]") >>
      [] OTHER -> << Lit("null") >>

\* The members of an object; a property whose value is undefined is left out.
StringifyMembers(props, first) ==
    IF props = <<>> THEN <<>>
    ELSE IF Head(props)[2].type = "undefined"
         THEN StringifyMembers(Tail(props), first)
         ELSE (IF first THEN <<>> ELSE << Punct(",") >>)
              \o << StrTok(Head(props)[1]), Punct(":") >>
              \o Stringify(Head(props)[2])
              \o StringifyMembers(Tail(props), FALSE)

\* The items of an array; undefined is written as null.
StringifyItems(items, first) ==
    IF items = <<>> THEN <<>>
    ELSE (IF first THEN <<>> ELSE << Punct(",") >>)
         \o Stringify(Head(items))
         \o StringifyItems(Tail(items), FALSE)

\* JSON.stringify
JSONStringify(v) == Stringify(v)

Failed(i) == [ok |-> FALSE, value |-> Undefined, next |-> i]
Parsed(v, i) == [ok |-> TRUE, value |-> v, next |-> i]
IsPunct(toks, i, c) == i <= Len(toks) /\ toks[i] = Punct(c)

RECURSIVE ParseValue(_, _)
RECURSIVE ParseMembers(_, _, _)
RECURSIVE ParseItems(_, _, _)
\* One JSON value starting at token i.
ParseValue(toks, i) ==
    IF i > Len(toks) THEN Failed(i)
    ELSE CASE toks[i].tok = "string" -> Parsed(Str(toks[i].str), i + 1)
           [] toks[i].tok = "number" -> Parsed(Num(toks[i].num), i + 1)
           [] toks[i] = Lit("null") -> Parsed(Null, i + 1)
           [] toks[i] = Punct("{") ->
                IF IsPunct(toks, i + 1, "}") THEN Parsed(Obj(<<>>), i + 2)
                ELSE ParseMembers(toks, i + 1, <<>>)
           [] toks[i] = Punct("[") ->
                IF IsPunct(toks, i + 1, "]") THEN Parsed(Arr(<<>>), i + 2)
                ELSE ParseItems(toks, i + 1, <<>>)
           [] OTHER -> Failed(i)

\* key : value { , key : value } "}"  -- a repeated key keeps its last value.
ParseMembers(toks, i, acc) ==
    IF i + 1 > Len(toks) \/ toks[i].tok # "string" \/ toks[i + 1] # Punct(":")
    THEN Failed(i)
    ELSE LET r == ParseValue(toks, i + 2)
             props == SetProp(acc, toks[i].str, r.value)
         IN  IF ~r.ok THEN Failed(i)
             ELSE IF IsPunct(toks, r.next, "}") THEN Parsed(Obj(props), r.next + 1)
             ELSE IF IsPunct(toks, r.next, ",") THEN ParseMembers(toks, r.next + 1, props)
             ELSE Failed(r.next)

\* value { , value } "]"
ParseItems(toks, i, acc) ==
    LET r == ParseValue(toks, i)
    IN  IF ~r.ok THEN Failed(i)
        ELSE IF IsPunct(toks, r.next, "]") THEN Parsed(Arr(Append(acc, r.value)), r.next + 1)
        ELSE IF IsPunct(toks, r.next, ",") THEN ParseItems(toks, r.next + 1, Append(acc, r.value))
        ELSE Failed(r.next)

\* JSON.parse of a whole text: the value, or a thrown SyntaxError.
JSONParse(toks) ==
    LET r == ParseValue(toks, 1)
    IN  IF r.ok /\ r.next = Len(toks) + 1
        THEN Normal(r.value)
        ELSE Throw(Error(SyntaxErrorMessage))

\* The characters of one token.
TokenText(t) ==
    CASE t.tok = "string" -> "\"" \o t.str \o "\""
      [] t.tok = "number" -> ToString(t.num)
      [] OTHER -> t.str

\* The body decoded as a string.
RECURSIVE TextOf(_)
TextOf(toks) ==
    IF toks = <<>> THEN "" ELSE TokenText(Head(toks)) \o TextOf(Tail(toks))

(***************************************************************************)
(* The values the collaborators and the callers can supply.                *)
(***************************************************************************)
\* IHS objects (src/src/consent.ts:1): the Auth Provider with its base URL.
IhsA == [name |-> "ihsA", consent |-> "https://api-satusehat-stg.dto.kemkes.go.id/consent/v1"]
IhsB == [name |-> "ihsB", consent |-> "https://api-satusehat.kemkes.go.id/consent/v1"]
Providers == {IhsA, IhsB}

TokenA == Obj(<< <<"access_token", Str("tokA")>> >>)
TokenB == Obj(<< <<"access_token", Str("tokB")>> >>)

\* What auth() can resolve to.
AuthResults == {TokenA, TokenB, Undefined}
AuthResultsConc == {TokenA, TokenB}

\* What a rejected await can carry: any value at all.
CaughtValues ==
    { Error("invalid_client"), Error(""), Null, Undefined, Str("boom"), Num(42),
      Obj(<<>>), Obj(<< <<"code", Str("ECONNRESET")>> >>) }
AuthErrors == CaughtValues
AuthErrorsConc == {Error("invalid_client")}
FetchErrors == {Error("fetch failed"), Undefined}
FetchErrorsConc == {Error("fetch failed")}
ReadErrors == {Error("terminated")}

PatientIds == {"P123", ""}
PatientIdsConc == {"P123"}

DataTyped == Obj(<< <<"patientId", Str("P123")>>, <<"action", Str("OPTIN")>>,
                    <<"agent", Str("Dr. Ada")>> >>)
DataOptOut == Obj(<< <<"agent", Str("Dr. Ada")>>, <<"action", Str("OPTOUT")>>,
                     <<"patientId", Str("P456")>> >>)
DataExtra == Obj(<< <<"patientId", Str("P123")>>, <<"action", Str("OPTIN")>>,
                    <<"agent", Str("Dr. Ada")>>, <<"note", Str("urgent")>> >>)
DataOwnPatientId == Obj(<< <<"patientId", Str("P123")>>, <<"action", Str("OPTIN")>>,
                           <<"agent", Str("Dr. Ada")>>, <<"patient_id", Str("P999")>> >>)
DataSamePatientId == Obj(<< <<"patient_id", Str("P123")>>, <<"patientId", Str("P123")>>,
                            <<"action", Str("OPTOUT")>>, <<"agent", Str("Dr. Ada")>> >>)
DataNoPatientId == Obj(<< <<"action", Str("OPTIN")>>, <<"agent", Str("Dr. Ada")>> >>)
Datas == {DataTyped, DataOptOut, DataExtra, DataOwnPatientId, DataSamePatientId,
          DataNoPatientId}
DatasConc == {DataTyped}

ConsentJson == Obj(<< <<"resourceType", Str("Consent")>>, <<"id", Str("C1")>> >>)
NotFoundJson ==
    Obj(<< <<"resourceType", Str("OperationOutcome")>>,
           <<"issue", Arr(<< Obj(<< <<"code", Str("not-found")>>,
                                    <<"severity", Str("error")>> >>) >>)>> >>)
BodyConsent == JSONStringify(ConsentJson)
BodyNotFound == JSONStringify(NotFoundJson)
BodyNull == << Lit("null") >>
BodyDbDown == << Chars("db down") >>
BodyTruncated == << Punct("{"), StrTok("resourceType"), Punct(":") >>
BodyEmpty == <<>>
Bodies == {BodyConsent, BodyNotFound, BodyNull, BodyDbDown, BodyTruncated, BodyEmpty}
Statuses == {200, 404, 500, 503}

\* A Response: its status, the body the server sent, and the error that reading
\* the body ends with (Nothing when the whole body arrives).
Response(status, body, bodyError) ==
    [type |-> "response", status |-> status, body |-> body, bodyError |-> bodyError]
Responses ==
    {Response(s, b, Nothing) : s \in Statuses, b \in Bodies}
    \cup {Response(s, BodyEmpty, e) : s \in Statuses, e \in ReadErrors}
ResponsesConc ==
    {Response(200, BodyConsent, Nothing), Response(200, BodyTruncated, Nothing),
     Response(503, BodyDbDown, Nothing), Response(503, BodyEmpty, Error("terminated"))}

(***************************************************************************)
(* State.                                                                  *)
(***************************************************************************)
VARIABLES
    instance,     \* the module variable `instance`: undefined or the Consent object
    constructed,  \* how many Consent objects have been constructed
    params,       \* the arguments of the getConsentSingleton calls so far
    returned,     \* the values those calls returned
    pc,           \* per invocation: idle, auth, fetch, text, json, done
    op,           \* per invocation: "get" or "update"
    arg,          \* per invocation: patientId or data
    self,         \* per invocation: the Consent object it was called on
    authOutcome,  \* per invocation: how its await of auth() completed
    response,     \* per invocation: the Response its fetch resolved to
    bodyMethod,   \* per invocation: the body reader it called, text or json
    caught,       \* per invocation: the value its catch block received
    settled,      \* per invocation: the promise returned to the caller
    authCalls,    \* per invocation: auth() calls it made, with the provider
    sent          \* per invocation: the requests it handed to fetch

singletonVars == <<instance, constructed, params, returned>>
invVars == <<pc, op, arg, self, authOutcome, response, bodyMethod, caught, settled,
             authCalls, sent>>
vars == <<instance, constructed, params, returned, pc, op, arg, self,
          authOutcome, response, bodyMethod, caught, settled, authCalls, sent>>

Pending == [state |-> "pending"]
Fulfilled(v) == [state |-> "fulfilled", value |-> v]
Rejected(r) == [state |-> "rejected", reason |-> r]

\* n invocations, none started yet.
NotStarted(n) ==
    /\ pc = [i \in 1..n |-> "idle"]
    /\ op = [i \in 1..n |-> "none"]
    /\ arg = [i \in 1..n |-> Nothing]
    /\ self = [i \in 1..n |-> Nothing]
    /\ authOutcome = [i \in 1..n |-> Nothing]
    /\ response = [i \in 1..n |-> Nothing]
    /\ bodyMethod = [i \in 1..n |-> "none"]
    /\ caught = [i \in 1..n |-> Nothing]
    /\ settled = [i \in 1..n |-> Pending]
    /\ authCalls = [i \in 1..n |-> <<>>]
    /\ sent = [i \in 1..n |-> <<>>]

\* new Consent(ihs); id is the identity of the new object.
Consent(id, ihs) == [type |-> "Consent", id |-> id, ihs |-> ihs]

\* The state after module load: no instance yet; one invocation to come.
Init ==
    /\ instance = Undefined
    /\ constructed = 0
    /\ params = <<>>
    /\ returned = {}
    /\ NotStarted(1)

\* The state after the application obtained the client once, with
\* getConsentSingleton(IhsA); NumInv invocations to come.
InitConc ==
    /\ instance = Consent(1, IhsA)
    /\ constructed = 1
    /\ params = <<IhsA>>
    /\ returned = {Consent(1, IhsA)}
    /\ NotStarted(NumInv)

(***************************************************************************)
(* getConsentSingleton and the constructor.                                *)
(***************************************************************************)
\* A getConsentSingleton that constructs on every call.
getConsentSingletonAlwaysNew(ihs) ==
    /\ Len(params) < MaxCalls
    /\ instance' = Consent(constructed + 1, ihs)
    /\ constructed' = constructed + 1
    /\ returned' = returned \cup {instance'}
    /\ params' = Append(params, ihs)
    /\ UNCHANGED invVars

getConsentSingleton(ihs) ==
    /\ Len(params) < MaxCalls
    /\ IF instance = Undefined
       THEN /\ instance' = Consent(constructed + 1, ihs)
            /\ constructed' = constructed + 1
       ELSE UNCHANGED <<instance, constructed>>
    /\ returned' = returned \cup {instance'}
    /\ params' = Append(params, ihs)
    /\ UNCHANGED invVars

(***************************************************************************)
(* The error normalization helper.                                         *)
(***************************************************************************)
\* The OperationOutcome literal of exception, with the given details.text.
OperationOutcome(text) ==
    Obj(<< <<"resourceType", Str("OperationOutcome")>>,
           <<"issue", Arr(<< Obj(<< <<"code", Str("exception")>>,
                                    <<"severity", Str("error")>>,
                                    <<"details", Obj(<< <<"text", text>> >>)>> >>) >>)>> >>)

\* An exception that ignores the message of the error.
exceptionGeneric(error) == Normal(OperationOutcome(Str("unknown error")))

\* exception(error): the completion of the call.
exception(error) ==
    LET message == OptionalMember(error, "message")
    IN  IF message.kind = "throw" THEN message
        ELSE Normal(OperationOutcome(Or(message.value, Str("unknown error"))))

(***************************************************************************)
(* The requests of get and update.                                         *)
(***************************************************************************)
\* `${v}`
TemplateString(v) ==
    CASE v.type = "string" -> v.str
      [] v.type = "number" -> ToString(v.num)
      [] v.type = "undefined" -> "undefined"
      [] v.type = "null" -> "null"
      [] OTHER -> "[object Object]"

\* new URL(this.ihs.baseUrls.consent + '/Consent')
ConsentUrl(this) == [href |-> this.ihs.consent \o "/Consent", searchParams |-> <<>>]

\* The request get hands to fetch, or the TypeError of reading the token.
getRequest(this, authResult, patientId) ==
    LET url == [ConsentUrl(this) EXCEPT !.searchParams = << <<"patient_id", patientId>> >>]
        token == Member(authResult, "access_token")
    IN  IF token.kind = "throw" THEN token
        ELSE Normal([method |-> "GET",
                     url |-> url,
                     headers |-> << <<"Authorization",
                                      "Bearer " \o TemplateString(token.value)>> >>,
                     body |-> <<>>])

\* A payload that is data alone, without the patient_id mapping.
payloadUnmapped(data) == data

\* { patient_id: data.patientId, ...data }
payload(data) ==
    Obj(Spread(<< <<"patient_id", Lookup(data.props, "patientId")>> >>, data.props))

\* The request update hands to fetch, or the TypeError of reading the token.
updateRequest(this, authResult, data) ==
    LET url == ConsentUrl(this)
        body == JSONStringify(payload(data))
        token == Member(authResult, "access_token")
    IN  IF token.kind = "throw" THEN token
        ELSE Normal([method |-> "POST",
                     url |-> url,
                     headers |-> << <<"Authorization",
                                      "Bearer " \o TemplateString(token.value)>>,
                                    <<"Content-Type", "application/json">> >>,
                     body |-> body])

\* response.status >= 500, off by one
IsServerErrorAbove(status) == status > 500

\* response.status >= 500, widened to every error status
IsServerErrorOrClient(status) == status >= 400

\* response.status >= 500
IsServerError(status) == status >= 500

(***************************************************************************)
(* get and update, one action per step between awaits.                     *)
(***************************************************************************)
\* A catch block that lets the error escape.
Rethrow(i, error) ==
    /\ caught' = [caught EXCEPT ![i] = error]
    /\ settled' = [settled EXCEPT ![i] = Rejected(error)]
    /\ pc' = [pc EXCEPT ![i] = "done"]

\* catch (error) { return this.exception(error); }
Catch(i, error) ==
    /\ caught' = [caught EXCEPT ![i] = error]
    /\ settled' = [settled EXCEPT ![i] =
            LET c == exception(error)
            IN  IF c.kind = "normal" THEN Fulfilled(c.value) ELSE Rejected(c.value)]
    /\ pc' = [pc EXCEPT ![i] = "done"]

\* get(patientId) up to its first await: the call of this.ihs.auth().
get(i, patientId) ==
    /\ pc[i] = "idle"
    /\ instance # Undefined
    /\ op' = [op EXCEPT ![i] = "get"]
    /\ arg' = [arg EXCEPT ![i] = Str(patientId)]
    /\ self' = [self EXCEPT ![i] = instance]
    /\ authCalls' = [authCalls EXCEPT ![i] = Append(@, instance.ihs.name)]
    /\ pc' = [pc EXCEPT ![i] = "auth"]
    /\ UNCHANGED <<authOutcome, response, bodyMethod, caught, settled, sent>>
    /\ UNCHANGED singletonVars

\* update(data) up to its first await: the call of this.ihs.auth().
update(i, data) ==
    /\ pc[i] = "idle"
    /\ instance # Undefined
    /\ op' = [op EXCEPT ![i] = "update"]
    /\ arg' = [arg EXCEPT ![i] = data]
    /\ self' = [self EXCEPT ![i] = instance]
    /\ authCalls' = [authCalls EXCEPT ![i] = Append(@, instance.ihs.name)]
    /\ pc' = [pc EXCEPT ![i] = "auth"]
    /\ UNCHANGED <<authOutcome, response, bodyMethod, caught, settled, sent>>
    /\ UNCHANGED singletonVars

\* The request of invocation i, built with the given auth result.
RequestOf(i, authResult) ==
    IF op[i] = "get"
    THEN getRequest(self[i], authResult, arg[i].str)
    ELSE updateRequest(self[i], authResult, arg[i])

\* auth() resolved, but the request is built from the first auth result any
\* invocation has received (a token cached on the shared client).
AuthResolvedCached(i, authResult) ==
    /\ pc[i] = "auth"
    /\ authOutcome' = [authOutcome EXCEPT ![i] = Normal(authResult)]
    /\ LET known == {j \in DOMAIN authOutcome :
                        authOutcome[j] # Nothing /\ authOutcome[j].kind = "normal"}
           cached == IF known = {} THEN authResult
                     ELSE authOutcome[CHOOSE j \in known : \A k \in known : j <= k].value
           request == RequestOf(i, cached)
       IN  IF request.kind = "throw"
           THEN Catch(i, request.value) /\ UNCHANGED sent
           ELSE /\ sent' = [sent EXCEPT ![i] = Append(@, request.value)]
                /\ pc' = [pc EXCEPT ![i] = "fetch"]
                /\ UNCHANGED <<caught, settled>>
    /\ UNCHANGED <<op, arg, self, response, bodyMethod, authCalls>>
    /\ UNCHANGED singletonVars

\* auth() resolved: build the request and call fetch.
AuthResolved(i, authResult) ==
    /\ pc[i] = "auth"
    /\ authOutcome' = [authOutcome EXCEPT ![i] = Normal(authResult)]
    /\ LET request == RequestOf(i, authResult)
       IN  IF request.kind = "throw"
           THEN Catch(i, request.value) /\ UNCHANGED sent
           ELSE /\ sent' = [sent EXCEPT ![i] = Append(@, request.value)]
                /\ pc' = [pc EXCEPT ![i] = "fetch"]
                /\ UNCHANGED <<caught, settled>>
    /\ UNCHANGED <<op, arg, self, response, bodyMethod, authCalls>>
    /\ UNCHANGED singletonVars

\* auth() rejected.
AuthRejected(i, error) ==
    /\ pc[i] = "auth"
    /\ authOutcome' = [authOutcome EXCEPT ![i] = Throw(error)]
    /\ Catch(i, error)
    /\ UNCHANGED <<op, arg, self, response, bodyMethod, authCalls, sent>>
    /\ UNCHANGED singletonVars

\* fetch resolved: read the body as text on a 5xx status, as JSON otherwise.
FetchResolved(i, resp) ==
    /\ pc[i] = "fetch"
    /\ response' = [response EXCEPT ![i] = resp]
    /\ IF IsServerError(resp.status)
       THEN /\ bodyMethod' = [bodyMethod EXCEPT ![i] = "text"]
            /\ pc' = [pc EXCEPT ![i] = "text"]
       ELSE /\ bodyMethod' = [bodyMethod EXCEPT ![i] = "json"]
            /\ pc' = [pc EXCEPT ![i] = "json"]
    /\ UNCHANGED <<op, arg, self, authOutcome, caught, settled, authCalls, sent>>
    /\ UNCHANGED singletonVars

\* fetch rejected.
FetchRejected(i, error) ==
    /\ pc[i] = "fetch"
    /\ Catch(i, error)
    /\ UNCHANGED <<op, arg, self, authOutcome, response, bodyMethod, authCalls, sent>>
    /\ UNCHANGED singletonVars

\* response.text() resolved, but the error carries the status instead.
TextResolvedStatus(i) ==
    /\ pc[i] = "text"
    /\ response[i].bodyError = Nothing
    /\ Catch(i, Error(ToString(response[i].status)))
    /\ UNCHANGED <<op, arg, self, authOutcome, response, bodyMethod, authCalls, sent>>
    /\ UNCHANGED singletonVars

\* response.text() resolved: throw new Error(text), caught at once.
TextResolved(i) ==
    /\ pc[i] = "text"
    /\ response[i].bodyError = Nothing
    /\ Catch(i, Error(TextOf(response[i].body)))
    /\ UNCHANGED <<op, arg, self, authOutcome, response, bodyMethod, authCalls, sent>>
    /\ UNCHANGED singletonVars

\* response.json() resolved: return the parsed body.
JsonResolved(i) ==
    /\ pc[i] = "json"
    /\ response[i].bodyError = Nothing
    /\ JSONParse(response[i].body).kind = "normal"
    /\ settled' = [settled EXCEPT ![i] = Fulfilled(JSONParse(response[i].body).value)]
    /\ pc' = [pc EXCEPT ![i] = "done"]
    /\ UNCHANGED <<op, arg, self, authOutcome, response, bodyMethod, caught, authCalls,
                   sent>>
    /\ UNCHANGED singletonVars

\* response.json() rejected with the SyntaxError of a body that is no JSON.
JsonRejected(i) ==
    /\ pc[i] = "json"
    /\ response[i].bodyError = Nothing
    /\ JSONParse(response[i].body).kind = "throw"
    /\ Catch(i, JSONParse(response[i].body).value)
    /\ UNCHANGED <<op, arg, self, authOutcome, response, bodyMethod, authCalls, sent>>
    /\ UNCHANGED singletonVars

\* response.text() or response.json() rejected: the body could not be read.
BodyReadFailed(i) ==
    /\ pc[i] \in {"text", "json"}
    /\ response[i].bodyError # Nothing
    /\ Catch(i, response[i].bodyError)
    /\ UNCHANGED <<op, arg, self, authOutcome, response, bodyMethod, authCalls, sent>>
    /\ UNCHANGED singletonVars

(***************************************************************************)
(* Specifications.  Spec: one invocation with every input and every        *)
(* collaborator outcome, interleaved with getConsentSingleton calls.       *)
(* SpecConc: NumInv concurrent invocations on the client, over a reduced   *)
(* alphabet of inputs and outcomes.                                        *)
(***************************************************************************)
Next ==
    \/ \E p \in Providers : getConsentSingleton(p)
    \/ \E i \in DOMAIN pc, patientId \in PatientIds : get(i, patientId)
    \/ \E i \in DOMAIN pc, data \in Datas : update(i, data)
    \/ \E i \in DOMAIN pc, authResult \in AuthResults : AuthResolved(i, authResult)
    \/ \E i \in DOMAIN pc, error \in AuthErrors : AuthRejected(i, error)
    \/ \E i \in DOMAIN pc, resp \in Responses : FetchResolved(i, resp)
    \/ \E i \in DOMAIN pc, error \in FetchErrors : FetchRejected(i, error)
    \/ \E i \in DOMAIN pc : TextResolved(i)
    \/ \E i \in DOMAIN pc : JsonResolved(i)
    \/ \E i \in DOMAIN pc : JsonRejected(i)
    \/ \E i \in DOMAIN pc : BodyReadFailed(i)

NextConc ==
    \/ \E i \in DOMAIN pc, patientId \in PatientIdsConc : get(i, patientId)
    \/ \E i \in DOMAIN pc, data \in DatasConc : update(i, data)
    \/ \E i \in DOMAIN pc, authResult \in AuthResultsConc : AuthResolved(i, authResult)
    \/ \E i \in DOMAIN pc, error \in AuthErrorsConc : AuthRejected(i, error)
    \/ \E i \in DOMAIN pc, resp \in ResponsesConc : FetchResolved(i, resp)
    \/ \E i \in DOMAIN pc, error \in FetchErrorsConc : FetchRejected(i, error)
    \/ \E i \in DOMAIN pc : TextResolved(i)
    \/ \E i \in DOMAIN pc : JsonResolved(i)
    \/ \E i \in DOMAIN pc : JsonRejected(i)
    \/ \E i \in DOMAIN pc : BodyReadFailed(i)

Spec == Init /\ [][Next]_vars
SpecConc == InitConc /\ [][NextConc]_vars

(***************************************************************************)
(* Vocabulary of the properties.                                           *)
(***************************************************************************)
Invocations == DOMAIN pc
Done(i) == pc[i] = "done"
Resolved(i) == settled[i].state = "fulfilled"
Result(i) == settled[i].value

IsResource(v, resourceType) ==
    v.type = "object" /\ Lookup(v.props, "resourceType") = Str(resourceType)
IsOperationOutcome(v) == IsResource(v, "OperationOutcome")
Issues(v) == Lookup(v.props, "issue")
HasOneIssue(v) ==
    IsOperationOutcome(v) /\ Issues(v).type = "array" /\ Len(Issues(v).items) = 1
IssueField(v, key) == Lookup(Issues(v).items[1].props, key)
IsExceptionOutcome(v) ==
    /\ HasOneIssue(v)
    /\ IssueField(v, "code") = Str("exception")
    /\ IssueField(v, "severity") = Str("error")
    /\ IssueField(v, "details").type = "object"
DetailsText(v) == Lookup(IssueField(v, "details").props, "text")

AuthFailed(i) == authOutcome[i] # Nothing /\ authOutcome[i].kind = "throw"
AuthSucceeded(i) == authOutcome[i] # Nothing /\ authOutcome[i].kind = "normal"
FetchFailed(i) == Done(i) /\ sent[i] # <<>> /\ response[i] = Nothing
GotResponse(i) == response[i] # Nothing
ServerError(i) == GotResponse(i) /\ response[i].status >= 500
BodyArrived(i) == GotResponse(i) /\ response[i].bodyError = Nothing
TextReadFailed(i) == ServerError(i) /\ response[i].bodyError # Nothing
ValidJson(i) == BodyArrived(i) /\ JSONParse(response[i].body).kind = "normal"
JsonFailed(i) ==
    /\ GotResponse(i)
    /\ response[i].status < 500
    /\ (response[i].bodyError # Nothing \/ JSONParse(response[i].body).kind = "throw")
Is2xx(i) == GotResponse(i) /\ response[i].status \in 200..299
Is4xx(i) == GotResponse(i) /\ response[i].status \in 400..499

\* The error carries a message: it is an object with an own string message.
HasMessage(v) ==
    /\ v.type = "object"
    /\ HasOwn(v.props, "message")
    /\ Lookup(v.props, "message").type = "string"
MessageOf(v) == Lookup(v.props, "message").str

\* The caught value carries no message at all.
NoMessage(v) ==
    \/ v.type \in {"undefined", "null", "string", "number"}
    \/ v.type = "object" /\ ~HasOwn(v.props, "message")

(***************************************************************************)
(* C1                                                                      *)
(***************************************************************************)
\* C1: get and update never reject: a finished invocation has resolved to a
\* value, and when auth() failed, the network call failed, the status was
\* >= 500 (its body text read or not), or the body of a non-5xx response was
\* no JSON, that value is an OperationOutcome.
C1_NeverRejects ==
    \A i \in Invocations :
        /\ settled[i].state # "rejected"
        /\ Done(i) => Resolved(i)
        /\ Done(i) /\ (AuthFailed(i) \/ FetchFailed(i) \/ ServerError(i) \/ JsonFailed(i))
              => IsOperationOutcome(Result(i))

\* Reading the text of a 5xx body failed, and the invocation resolved.
C1_Witness ==
    \E i \in Invocations :
        Done(i) /\ TextReadFailed(i) /\ Resolved(i) /\ IsOperationOutcome(Result(i))

(***************************************************************************)
(* C2                                                                      *)
(***************************************************************************)
\* C2: after a response with status >= 500, whatever its body, the body is not
\* read as JSON, and the invocation resolves to an OperationOutcome with
\* exactly one issue, of code "exception" and severity "error".
C2_ServerErrorIsException ==
    \A i \in Invocations :
        ServerError(i) =>
            /\ bodyMethod[i] = "text"
            /\ Done(i) => Resolved(i) /\ IsExceptionOutcome(Result(i))

\* A 500 whose body is itself a valid JSON OperationOutcome was normalized.
C2_Witness ==
    \E i \in Invocations :
        /\ Done(i)
        /\ response[i] = Response(500, BodyNotFound, Nothing)
        /\ Resolved(i)
        /\ IsExceptionOutcome(Result(i))

(***************************************************************************)
(* C3                                                                      *)
(***************************************************************************)
\* C3: after a 2xx or 4xx response whose body is valid JSON, the invocation
\* resolves to the value that body denotes, untouched: it is the parsed body,
\* and writing it back as JSON gives the body text again.
C3_JsonBodyVerbatim ==
    \A i \in Invocations :
        Done(i) /\ (Is2xx(i) \/ Is4xx(i)) /\ ValidJson(i) =>
            /\ Resolved(i)
            /\ Result(i) = JSONParse(response[i].body).value
            /\ JSONStringify(Result(i)) = response[i].body

\* A 404 with a JSON body was passed through as it came.
C3_Witness ==
    \E i \in Invocations :
        /\ Done(i)
        /\ response[i] = Response(404, BodyNotFound, Nothing)
        /\ settled[i] = Fulfilled(NotFoundJson)

(***************************************************************************)
(* C4                                                                      *)
(***************************************************************************)
\* C4 as stated: when auth() fails with an error of message X, for every X,
\* the empty string included, the result is an OperationOutcome whose single
\* issue has details.text = X.
C4_Original ==
    \A i \in Invocations :
        Done(i) /\ AuthFailed(i) /\ HasMessage(authOutcome[i].value) =>
            /\ Resolved(i)
            /\ IsExceptionOutcome(Result(i))
            /\ DetailsText(Result(i)) = Str(MessageOf(authOutcome[i].value))

\* C4 amended: when auth() fails with an error of message X, the result is an
\* OperationOutcome whose single issue has details.text = X when X is not
\* empty, and "unknown error" when X is the empty string.
C4_AuthMessage ==
    \A i \in Invocations :
        Done(i) /\ AuthFailed(i) /\ HasMessage(authOutcome[i].value) =>
            /\ Resolved(i)
            /\ IsExceptionOutcome(Result(i))
            /\ DetailsText(Result(i)) =
                  IF MessageOf(authOutcome[i].value) # ""
                  THEN Str(MessageOf(authOutcome[i].value))
                  ELSE Str("unknown error")

\* auth() failed with the message "invalid_client", which became the text.
C4_Witness ==
    \E i \in Invocations :
        /\ Done(i)
        /\ authOutcome[i] = Throw(Error("invalid_client"))
        /\ Resolved(i)
        /\ IsExceptionOutcome(Result(i))
        /\ DetailsText(Result(i)) = Str("invalid_client")

(***************************************************************************)
(* C5                                                                      *)
(***************************************************************************)
\* C5 as stated: after a response with status >= 500 the issue's details.text
\* equals the response body text, for every body text, the empty one included.
C5_Original ==
    \A i \in Invocations :
        Done(i) /\ ServerError(i) /\ BodyArrived(i) =>
            /\ Resolved(i)
            /\ IsExceptionOutcome(Result(i))
            /\ DetailsText(Result(i)) = Str(TextOf(response[i].body))

\* C5 amended: after a response with status >= 500 the issue's details.text
\* equals the response body text when that text is not empty, and
\* "unknown error" when the body is empty.
C5_BodyTextIsMessage ==
    \A i \in Invocations :
        Done(i) /\ ServerError(i) /\ BodyArrived(i) =>
            /\ Resolved(i)
            /\ IsExceptionOutcome(Result(i))
            /\ DetailsText(Result(i)) =
                  IF TextOf(response[i].body) # ""
                  THEN Str(TextOf(response[i].body))
                  ELSE Str("unknown error")

\* A 503 with body "db down" gave details.text "db down".
C5_Witness ==
    \E i \in Invocations :
        /\ Done(i)
        /\ response[i] = Response(503, BodyDbDown, Nothing)
        /\ Resolved(i)
        /\ IsExceptionOutcome(Result(i))
        /\ DetailsText(Result(i)) = Str("db down")

(***************************************************************************)
(* C6                                                                      *)
(***************************************************************************)
\* C6: for every caught value that carries no message (null, undefined, a
\* primitive string or number, an object without a message field) the helper
\* does not throw and returns an OperationOutcome with exactly one issue, of
\* severity "error", code "exception" and details.text "unknown error".
C6_NoMessageIsUnknownError ==
    \A i \in Invocations :
        caught[i] # Nothing /\ NoMessage(caught[i]) =>
            /\ Resolved(i)
            /\ IsExceptionOutcome(Result(i))
            /\ DetailsText(Result(i)) = Str("unknown error")

\* null was caught and normalized.
C6_Witness ==
    \E i \in Invocations :
        /\ caught[i] = Null
        /\ Resolved(i)
        /\ IsExceptionOutcome(Result(i))
        /\ DetailsText(Result(i)) = Str("unknown error")

(***************************************************************************)
(* C7                                                                      *)
(***************************************************************************)
\* C7: after any sequence of getConsentSingleton calls, every call returned
\* the same Consent instance, one instance at most was constructed, and it
\* holds the Auth Provider of the first call.
C7_Singleton ==
    /\ params = <<>> => instance = Undefined /\ constructed = 0 /\ returned = {}
    /\ params # <<>> =>
          /\ constructed = 1
          /\ instance = Consent(1, params[1])
          /\ returned = {instance}

\* A later call passed another Auth Provider and got the first instance.
C7_Witness ==
    /\ Len(params) >= 2
    /\ params[2] # params[1]
    /\ returned = {Consent(1, params[1])}

(***************************************************************************)
(* C8                                                                      *)
(***************************************************************************)
\* The request body of an update, read back as JSON.
SentBody(i) == JSONParse(sent[i][1].body).value
UpdateSent(i) == op[i] = "update" /\ sent[i] # <<>>
HasStringFields(data) ==
    \A key \in {"patientId", "action", "agent"} :
        Lookup(data.props, key).type = "string"

C9_DocComment ==
    \A i \in Invocations :
        Done(i) /\ GotResponse(i) =>
            /\ Resolved(i)
            /\ IF Is2xx(i)
               THEN IsResource(Result(i), "Consent")
               ELSE IsOperationOutcome(Result(i))

(***************************************************************************)
(* C10                                                                     *)
(***************************************************************************)
Header(request, name) ==
    request.headers[CHOOSE k \in 1..Len(request.headers) : request.headers[k][1] = name][2]

\* C10: under any interleaving, an invocation that has started made exactly
\* one auth() call, on the provider of its own client, and sent one request
\* at most; a request was sent only after its own auth() call succeeded and
\* carries the access token that call returned; no request was sent when
\* auth() failed.
C10_SingleLinearAttempt ==
    \A i \in Invocations :
        /\ Len(authCalls[i]) = (IF pc[i] = "idle" THEN 0 ELSE 1)
        /\ pc[i] # "idle" => authCalls[i] = <<self[i].ihs.name>>
        /\ Len(sent[i]) <= 1
        /\ AuthFailed(i) => sent[i] = <<>>
        /\ pc[i] \in {"idle", "auth"} => sent[i] = <<>>
        /\ sent[i] # <<>> =>
              /\ AuthSucceeded(i)
              /\ Header(sent[i][1], "Authorization") =
                    "Bearer " \o Lookup(authOutcome[i].value.props, "access_token").str

\* Two invocations are in flight at once, each with the token of its own auth().
C10_Witness ==
    \E i, j \in Invocations :
        /\ pc[i] = "fetch"
        /\ pc[j] = "fetch"
        /\ authOutcome[i] = Normal(TokenA)
        /\ authOutcome[j] = Normal(TokenB)
        /\ Header(sent[i][1], "Authorization") = "Bearer tokA"
        /\ Header(sent[j][1], "Authorization") = "Bearer tokB"

====
